---- MODULE Spec2Model ----
(***************************************************************************)
(* A model of the permission graph of src/app.py: the Graph store          *)
(* (add_node, add_edge, get_node, the adjacency indices), the hierarchy    *)
(* walks (get_resource_hierarchy, get_descendants) and the permission      *)
(* resolver (get_identity_permissions).                                    *)
(*                                                                         *)
(* A Node is modelled by the two fields its __eq__/__hash__ read, type and *)
(* id; its metadata mapping is never read by the Graph.  An Edge keeps its *)
(* metadata, because get_identity_permissions reads metadata['role'] while *)
(* Edge.__eq__ ignores it.  A dict is a TLA+ function on its keys, a list  *)
(* a sequence, a Python set a set.                                         *)
(***************************************************************************)
EXTENDS Integers, Sequences, FiniteSets, TLC

VARIABLES nodes, edges, outgoing_edges, incoming_edges, node_lookup,
          inserted, walk

vars == <<nodes, edges, outgoing_edges, incoming_edges, node_lookup,
          inserted, walk>>

--------------------------------------------------------------------------
(* Enums *)

\* NodeType: member name |-> value
NodeType ==
    "IDENTITY" :> "identity" @@ "RESOURCE" :> "resource" @@
    "ORGANIZATION" :> "organization" @@ "FOLDER" :> "folder" @@
    "PROJECT" :> "project" @@ "BILLING_ACCOUNT" :> "billing_account" @@
    "BUCKET" :> "bucket" @@ "USER" :> "user" @@
    "SERVICE_ACCOUNT" :> "service_account" @@ "GROUP" :> "group" @@
    "DOMAIN" :> "domain"

\* EdgeType: member name |-> value
EdgeType ==
    "PARENT_CHILD" :> "parent_child" @@ "PERMISSION" :> "permission" @@
    "MEMBER" :> "member"

\* EdgeDirection: member name |-> value
EdgeDirection ==
    "OUTGOING" :> "outgoing" @@ "INCOMING" :> "incoming" @@ "BOTH" :> "both"

\* Python's None where a Node or an exception may stand
None == [none |-> TRUE]

\* Python's None as the edge_type argument: no filter by type
AnyEdgeType == "None"

--------------------------------------------------------------------------
(* Bounds and inputs *)

\* the most edges the store is grown to
MaxEdges == 3

\* the most edges the store is grown to while the stepwise walk is observed
MaxWalkEdges == 2

\* the nodes the operations are called with: an identity and two resources;
\* the id "x" names a user and a folder
NodeInputs ==
    { [type |-> "USER", id |-> "x"],
      [type |-> "FOLDER", id |-> "x"],
      [type |-> "FOLDER", id |-> "y"] }

\* the nodes that grant and membership edges are built to leave
IdentityInputs == { n \in NodeInputs : n.type = "USER" }

\* the role strings grant edges are built with
Roles == {"viewer", "owner"}

\* the metadata mappings edges are built with: {} or {'role': r}
MetadataInputs(type) ==
    IF type = "PERMISSION"
    THEN {{}} \cup { {<<"role", r>>} : r \in Roles }
    ELSE {{}}

\* Edge(src_node, dst_node, type, metadata)
Edge(src_node, dst_node, type, metadata) ==
    [src_node |-> src_node, dst_node |-> dst_node, type |-> type,
     metadata |-> metadata]

\* the edges add_edge is called with: containment edges between any two
\* nodes (self-loops, cycles and several parents included), grant and
\* membership edges from an identity to any node
EdgeInputs ==
    UNION { { Edge(s, d, t, m) : m \in MetadataInputs(t) }
            : <<s, d, t>> \in
                (NodeInputs \X NodeInputs \X {"PARENT_CHILD"}) \cup
                (IdentityInputs \X NodeInputs \X {"PERMISSION", "MEMBER"}) }

--------------------------------------------------------------------------
(* Node and Edge equality *)

\* Node.__eq__ / Node.__hash__: type and id
NodeEq(a, b) == a.type = b.type /\ a.id = b.id

\* EdgeEq, had Edge.__eq__ compared the metadata too
EdgeEqWithMetadata(a, b) ==
    /\ a.src_node.type = b.src_node.type /\ a.src_node.id = b.src_node.id
    /\ a.dst_node.type = b.dst_node.type /\ a.dst_node.id = b.dst_node.id
    /\ a.type = b.type
    /\ a.metadata = b.metadata

\* Edge.__eq__ / Edge.__hash__: source, destination and type; not metadata
EdgeEq(a, b) ==
    /\ NodeEq(a.src_node, b.src_node)
    /\ NodeEq(a.dst_node, b.dst_node)
    /\ a.type = b.type

\* dict.get(key, default) on a mapping kept as a set of <<key, value>>
DictGet(d, key, default) ==
    IF \E p \in d : p[1] = key
    THEN (CHOOSE p \in d : p[1] = key)[2]
    ELSE default

--------------------------------------------------------------------------
(* Graph store *)

\* the Graph object
G == [nodes |-> nodes, edges |-> edges, outgoing_edges |-> outgoing_edges,
      incoming_edges |-> incoming_edges, node_lookup |-> node_lookup]

\* Graph.__init__
EmptyGraph ==
    [nodes |-> {}, edges |-> {}, outgoing_edges |-> <<>>,
     incoming_edges |-> <<>>, node_lookup |-> <<>>]

\* d[key] = value on a dict
DictSet(d, key, value) ==
    [k \in DOMAIN d \cup {key} |-> IF k = key THEN value ELSE d[k]]

\* add_node, had it left _node_lookup alone
add_node_NoLookup(g, node) ==
    IF ~ \E m \in g.nodes : NodeEq(m, node)
    THEN [g EXCEPT
            !.nodes = @ \cup {node},
            !.outgoing_edges = DictSet(@, node, <<>>),
            !.incoming_edges = DictSet(@, node, <<>>)]
    ELSE g

\* Graph.add_node
add_node(g, node) ==
    IF ~ \E m \in g.nodes : NodeEq(m, node)
    THEN [g EXCEPT
            !.nodes = @ \cup {node},
            !.node_lookup = DictSet(@, <<node.type, node.id>>, node),
            !.outgoing_edges = DictSet(@, node, <<>>),
            !.incoming_edges = DictSet(@, node, <<>>)]
    ELSE g

\* add_edge, had it stored the edge without inserting its endpoints
add_edge_NoEndpoints(g, edge) ==
    IF ~ \E f \in g.edges : EdgeEq(f, edge)
    THEN [g EXCEPT
            !.edges = @ \cup {edge},
            !.outgoing_edges =
                IF edge.src_node \in DOMAIN @
                THEN DictSet(@, edge.src_node, Append(@[edge.src_node], edge))
                ELSE @,
            !.incoming_edges =
                IF edge.dst_node \in DOMAIN @
                THEN DictSet(@, edge.dst_node, Append(@[edge.dst_node], edge))
                ELSE @]
    ELSE g

\* add_edge, had an edge already stored been replaced by the new one
add_edge_LastWins(g, edge) ==
    LET g1 == add_node(g, edge.src_node)
        g2 == add_node(g1, edge.dst_node)
        replaced(l) ==
            [k \in 1..Len(l) |-> IF EdgeEq(l[k], edge) THEN edge ELSE l[k]]
    IN  IF ~ \E f \in g2.edges : EdgeEq(f, edge)
        THEN [g2 EXCEPT
                !.edges = @ \cup {edge},
                !.outgoing_edges[edge.src_node] = Append(@, edge),
                !.incoming_edges[edge.dst_node] = Append(@, edge)]
        ELSE [g2 EXCEPT
                !.edges = { f \in @ : ~ EdgeEq(f, edge) } \cup {edge},
                !.outgoing_edges[edge.src_node] = replaced(@),
                !.incoming_edges[edge.dst_node] = replaced(@)]

\* Graph.add_edge
add_edge(g, edge) ==
    LET g1 == add_node(g, edge.src_node)
        g2 == add_node(g1, edge.dst_node)
    IN  IF ~ \E f \in g2.edges : EdgeEq(f, edge)
        THEN [g2 EXCEPT
                !.edges = @ \cup {edge},
                !.outgoing_edges[edge.src_node] = Append(@, edge),
                !.incoming_edges[edge.dst_node] = Append(@, edge)]
        ELSE g2

\* Graph.get_node
get_node(g, node_type, node_id) ==
    IF <<node_type, node_id>> \in DOMAIN g.node_lookup
    THEN g.node_lookup[<<node_type, node_id>>]
    ELSE None

\* get_outgoing_edges, had it not filtered by edge_type
get_outgoing_edges_Unfiltered(g, node, edge_type) ==
    IF node \in DOMAIN g.outgoing_edges
    THEN g.outgoing_edges[node] ELSE <<>>

\* Graph.get_outgoing_edges
get_outgoing_edges(g, node, edge_type) ==
    LET edges_from_node ==
            IF node \in DOMAIN g.outgoing_edges
            THEN g.outgoing_edges[node] ELSE <<>>
    IN  IF edge_type # AnyEdgeType
        THEN SelectSeq(edges_from_node, LAMBDA edge : edge.type = edge_type)
        ELSE edges_from_node

\* get_incoming_edges, had it not filtered by edge_type
get_incoming_edges_Unfiltered(g, node, edge_type) ==
    IF node \in DOMAIN g.incoming_edges
    THEN g.incoming_edges[node] ELSE <<>>

\* Graph.get_incoming_edges
get_incoming_edges(g, node, edge_type) ==
    LET edges_into_node ==
            IF node \in DOMAIN g.incoming_edges
            THEN g.incoming_edges[node] ELSE <<>>
    IN  IF edge_type # AnyEdgeType
        THEN SelectSeq(edges_into_node, LAMBDA edge : edge.type = edge_type)
        ELSE edges_into_node

--------------------------------------------------------------------------
(* Hierarchy resolver *)

\* list(s) of a Python set s: every order the iteration may yield
ListOfSet(s) ==
    { l \in [1..Cardinality(s) -> s] :
        \A i, j \in 1..Cardinality(s) : i # j => l[i] # l[j] }

\* the set of elements of a list
Elems(l) == { l[i] : i \in 1..Len(l) }

\* Graph.get_neighbors: the lists it may return, one per iteration order of
\* neighbors_set
get_neighbors(g, node, edge_type, direction) ==
    LET outgoing ==
            IF direction \in {"OUTGOING", "BOTH"}
            THEN { edge.dst_node :
                     edge \in Elems(get_outgoing_edges(g, node, edge_type)) }
            ELSE {}
        incoming ==
            IF direction \in {"INCOMING", "BOTH"}
            THEN { edge.src_node :
                     edge \in Elems(get_incoming_edges(g, node, edge_type)) }
            ELSE {}
        neighbors_set == outgoing \cup incoming
    IN  ListOfSet(neighbors_set)

\* the while loop of Graph.get_descendants from the given locals on: the
\* lists it may end with, over the orders get_neighbors may yield
RECURSIVE DescendantsLoop(_, _, _, _, _)
DescendantsLoop(g, edge_type, stack, visited, descendants) ==
    IF stack = <<>>
    THEN {descendants}
    ELSE LET current == stack[Len(stack)]
             popped == SubSeq(stack, 1, Len(stack) - 1)
         IN  IF current \in visited
             THEN DescendantsLoop(g, edge_type, popped, visited, descendants)
             ELSE LET seen == visited \cup {current}
                      fresh(children) ==
                          SelectSeq(children, LAMBDA child : child \notin seen)
                  IN  UNION { DescendantsLoop(g, edge_type,
                                              popped \o fresh(children), seen,
                                              descendants \o fresh(children))
                              : children \in
                                  get_neighbors(g, current, edge_type,
                                                "OUTGOING") }

\* Graph.get_descendants: the lists it may return
get_descendants(g, node, edge_type) ==
    DescendantsLoop(g, edge_type, <<node>>, {}, <<>>)

\* the ValueError get_resource_hierarchy raises: the fields of its message
ValueError(current, parent_ids, edge_type) ==
    [node_type |-> NodeType[current.type], node_id |-> current.id,
     parent_ids |-> parent_ids, edge_type |-> EdgeType[edge_type]]

\* Graph.get_resource_hierarchy: its locals before the loop
HierarchyStart(node) ==
    [pc |-> "loop", node |-> node, current |-> node, visited |-> {},
     ancestors |-> <<>>, iters |-> 0, error |-> None]

\* HierarchyStep, had the test been len(parent_edges) > 2
HierarchyStepTwoParents(g, edge_type, st) ==
    IF st.current \in st.visited
    THEN [st EXCEPT !.pc = "returned"]
    ELSE LET current == st.current
             parent_edges == get_incoming_edges(g, current, edge_type)
             parent_ids ==
                 [i \in 1..Len(parent_edges) |-> parent_edges[i].src_node.id]
             entered == [st EXCEPT !.visited = @ \cup {current},
                                   !.iters = @ + 1]
         IN  IF Len(parent_edges) > 2
             THEN [entered EXCEPT
                     !.pc = "raised",
                     !.error = ValueError(current, parent_ids, edge_type)]
             ELSE IF Len(parent_edges) = 1
             THEN [entered EXCEPT
                     !.ancestors = Append(@, parent_edges[1].src_node),
                     !.current = parent_edges[1].src_node]
             ELSE [entered EXCEPT !.pc = "returned"]

\* HierarchyStep, had the while condition not tested the visited set
HierarchyStepNoVisited(g, edge_type, st) ==
    LET current == st.current
        parent_edges == get_incoming_edges(g, current, edge_type)
        parent_ids ==
            [i \in 1..Len(parent_edges) |-> parent_edges[i].src_node.id]
        entered == [st EXCEPT !.visited = @ \cup {current},
                              !.iters = @ + 1]
    IN  IF Len(parent_edges) > 1
        THEN [entered EXCEPT
                !.pc = "raised",
                !.error = ValueError(current, parent_ids, edge_type)]
        ELSE IF Len(parent_edges) = 1
        THEN [entered EXCEPT
                !.ancestors = Append(@, parent_edges[1].src_node),
                !.current = parent_edges[1].src_node]
        ELSE [entered EXCEPT !.pc = "returned"]

\* Graph.get_resource_hierarchy: one test of the while condition and, when it
\* holds, one run of the loop body (a Node is always truthy); iters counts
\* the runs of the body
HierarchyStep(g, edge_type, st) ==
    IF st.current \in st.visited
    THEN [st EXCEPT !.pc = "returned"]
    ELSE LET current == st.current
             parent_edges == get_incoming_edges(g, current, edge_type)
             parent_ids ==
                 [i \in 1..Len(parent_edges) |-> parent_edges[i].src_node.id]
             entered == [st EXCEPT !.visited = @ \cup {current},
                                   !.iters = @ + 1]
         IN  IF Len(parent_edges) > 1
             THEN [entered EXCEPT
                     !.pc = "raised",
                     !.error = ValueError(current, parent_ids, edge_type)]
             ELSE IF Len(parent_edges) = 1
             THEN [entered EXCEPT
                     !.ancestors = Append(@, parent_edges[1].src_node),
                     !.current = parent_edges[1].src_node]
             ELSE [entered EXCEPT !.pc = "returned"]

\* the loop of Graph.get_resource_hierarchy run to its end
RECURSIVE HierarchyLoop(_, _, _)
HierarchyLoop(g, edge_type, st) ==
    IF st.pc = "loop"
    THEN HierarchyLoop(g, edge_type, HierarchyStep(g, edge_type, st))
    ELSE st

\* how a call of get_resource_hierarchy ends: the list returned, or the
\* exception raised in place of any list
Outcome(st) ==
    IF st.pc = "raised"
    THEN [raised |-> TRUE, value |-> st.error]
    ELSE [raised |-> FALSE, value |-> st.ancestors]

\* Graph.get_resource_hierarchy
get_resource_hierarchy(g, node, edge_type) ==
    Outcome(HierarchyLoop(g, edge_type, HierarchyStart(node)))

\* Graph.get_resource_hierarchy_by_id
get_resource_hierarchy_by_id(g, resource_type, resource_id) ==
    LET resource_node == get_node(g, resource_type, resource_id)
    IN  IF resource_node # None
        THEN get_resource_hierarchy(g, resource_node, "PARENT_CHILD")
        ELSE [raised |-> FALSE, value |-> <<>>]

--------------------------------------------------------------------------
(* Permission resolver *)

\* the for loop of Graph.get_identity_permissions from edge number i on: the
\* lists it may end with
RECURSIVE PermissionsLoop(_, _, _, _)
PermissionsLoop(g, permission_edges, i, permissions) ==
    IF i > Len(permission_edges)
    THEN {permissions}
    ELSE LET edge == permission_edges[i]
             resource == edge.dst_node
             role == DictGet(edge.metadata, "role", "")
             direct == <<resource.id, NodeType[resource.type], role>>
             inherited(descendants) ==
                 [k \in 1..Len(descendants) |->
                    <<descendants[k].id, NodeType[descendants[k].type], role>>]
         IN  UNION { PermissionsLoop(g, permission_edges, i + 1,
                                     Append(permissions, direct)
                                       \o inherited(descendants))
                     : descendants \in
                         get_descendants(g, resource, "PARENT_CHILD") }

\* get_identity_permissions, had it read every outgoing edge of the identity
get_identity_permissions_AllEdges(g, identity_type, identity_id) ==
    LET identity_node == get_node(g, identity_type, identity_id)
    IN  IF identity_node = None
        THEN {<<>>}
        ELSE PermissionsLoop(g,
                 get_outgoing_edges(g, identity_node, AnyEdgeType), 1, <<>>)

\* Graph.get_identity_permissions: the lists it may return
get_identity_permissions(g, identity_type, identity_id) ==
    LET identity_node == get_node(g, identity_type, identity_id)
    IN  IF identity_node = None
        THEN {<<>>}
        ELSE PermissionsLoop(g,
                 get_outgoing_edges(g, identity_node, "PERMISSION"), 1, <<>>)

--------------------------------------------------------------------------
(* Specification of the store *)

\* the walk position when no call of get_resource_hierarchy is in progress
Idle ==
    [pc |-> "idle", node |-> None, current |-> None, visited |-> {},
     ancestors |-> <<>>, iters |-> 0, error |-> None]

Init ==
    /\ nodes = EmptyGraph.nodes
    /\ edges = EmptyGraph.edges
    /\ outgoing_edges = EmptyGraph.outgoing_edges
    /\ incoming_edges = EmptyGraph.incoming_edges
    /\ node_lookup = EmptyGraph.node_lookup
    /\ inserted = {}
    /\ walk = Idle

\* the Graph's fields become those of g
Store(g) ==
    /\ nodes' = g.nodes
    /\ edges' = g.edges
    /\ outgoing_edges' = g.outgoing_edges
    /\ incoming_edges' = g.incoming_edges
    /\ node_lookup' = g.node_lookup

\* a call graph.add_node(node)
AddNode(node) ==
    /\ walk.pc = "idle"
    /\ Store(add_node(G, node))
    /\ inserted' = inserted \cup {node}
    /\ UNCHANGED walk

\* a call graph.add_edge(edge), the store growing to at most max edges (a
\* call with an edge already stored is always possible)
AddEdge(edge, max) ==
    /\ walk.pc = "idle"
    /\ Cardinality(add_edge(G, edge).edges) <= max
    /\ Store(add_edge(G, edge))
    /\ inserted' = inserted \cup {edge.src_node, edge.dst_node}
    /\ UNCHANGED walk

Next ==
    \/ \E node \in NodeInputs : AddNode(node)
    \/ \E edge \in EdgeInputs : AddEdge(edge, MaxEdges)

Spec == Init /\ [][Next]_vars

--------------------------------------------------------------------------
(* Specification of the store with a call of get_resource_hierarchy seen   *)
(* one loop iteration at a time.  The graph is built, then queried: no     *)
(* insertion runs while the call is in progress.                           *)

\* graph.get_resource_hierarchy(node) is called
CallHierarchy(node) ==
    /\ walk.pc = "idle"
    /\ walk' = HierarchyStart(node)
    /\ UNCHANGED <<nodes, edges, outgoing_edges, incoming_edges, node_lookup,
                   inserted>>

\* the call tests its while condition and runs its loop body once
StepHierarchy ==
    /\ walk.pc = "loop"
    /\ walk' = HierarchyStep(G, "PARENT_CHILD", walk)
    /\ UNCHANGED <<nodes, edges, outgoing_edges, incoming_edges, node_lookup,
                   inserted>>

\* the call has returned or raised, and the caller goes on
EndHierarchy ==
    /\ walk.pc \in {"returned", "raised"}
    /\ walk' = Idle
    /\ UNCHANGED <<nodes, edges, outgoing_edges, incoming_edges, node_lookup,
                   inserted>>

NextWalk ==
    \/ \E node \in NodeInputs : AddNode(node)
    \/ \E edge \in EdgeInputs : AddEdge(edge, MaxWalkEdges)
    \/ \E node \in NodeInputs : CallHierarchy(node)
    \/ StepHierarchy
    \/ EndHierarchy

\* the call is synchronous: once entered, its loop keeps running
SpecWalk == Init /\ [][NextWalk]_vars /\ WF_vars(StepHierarchy)

--------------------------------------------------------------------------
(* The containment relation read off the edge set, as the claims speak of  *)
(* it; none of this reads the adjacency indices or the walks.              *)

\* the (type, id) pairs lookups are made with: those of the inputs and some
\* never inserted
KeyInputs == (DOMAIN NodeType) \X {"x", "y", "z"}

\* the node value with the given kind and id
NodeOf(type, id) == [type |-> type, id |-> id]

\* the nodes with a stored containment edge into n
Parents(n) ==
    { e.src_node : e \in { f \in edges :
                             f.type = "PARENT_CHILD" /\ f.dst_node = n } }

\* the nodes with a stored containment edge from n
Children(n) ==
    { e.dst_node : e \in { f \in edges :
                             f.type = "PARENT_CHILD" /\ f.src_node = n } }

\* the nodes reachable from the set s by zero or more containment edges
RECURSIVE Closure(_)
Closure(s) ==
    LET t == s \cup UNION { Children(n) : n \in s }
    IN  IF t = s THEN s ELSE Closure(t)

\* the nodes reachable from n by one or more containment edges
Reachable(n) == Closure(Children(n))

\* every node has at most one containment parent
SingleParent == \A n \in NodeInputs : Cardinality(Parents(n)) <= 1

\* the containment edges form a forest
IsForest == SingleParent /\ \A n \in NodeInputs : n \notin Reachable(n)

\* in a forest: parent(n), parent(parent(n)), ..., root
RECURSIVE ParentChain(_)
ParentChain(n) ==
    IF Parents(n) = {}
    THEN <<>>
    ELSE LET p == CHOOSE p \in Parents(n) : TRUE
         IN  <<p>> \o ParentChain(p)

\* the nodes the upward walk from the set s passes through: a node with
\* exactly one containment parent is left for that parent
RECURSIVE WalkedFrom(_)
WalkedFrom(s) ==
    LET t == s \cup UNION { Parents(n) :
                              n \in { m \in s : Cardinality(Parents(m)) = 1 } }
    IN  IF t = s THEN s ELSE WalkedFrom(t)

\* the nodes on the walked chain of n that have two or more parents
Offenders(n) == { m \in WalkedFrom({n}) : Cardinality(Parents(m)) >= 2 }

\* a list holds no element twice
NoDuplicates(l) == \A i, j \in 1..Len(l) : i # j => l[i] # l[j]

\* the tuple get_identity_permissions reports for node n and a role
Reported(n, role) == <<n.id, NodeType[n.type], role>>

--------------------------------------------------------------------------
(* C1 *)

\* C1: after any sequence of add_node and add_edge calls on an empty Graph,
\* every stored edge has its source node and its destination node in the
\* node set.
C1_EndpointsPresent ==
    \A e \in edges : e.src_node \in nodes /\ e.dst_node \in nodes

\* an edge between two different nodes is stored and no other node is
C1_Witness ==
    \E e \in edges :
        /\ e.src_node # e.dst_node
        /\ nodes = {e.src_node, e.dst_node}

--------------------------------------------------------------------------
(* C2 *)

\* C2: in every reachable state, add_node with a node whose (type, id) is
\* present, and add_edge with an edge whose (source, destination, type) is
\* present, leave the node set, the edge set and both adjacency lists as
\* they are.
C2_Idempotent ==
    /\ \A node \in NodeInputs :
          (\E m \in nodes : m.type = node.type /\ m.id = node.id)
              => add_node(G, node) = G
    /\ \A edge \in EdgeInputs :
          (\E f \in edges : /\ f.src_node = edge.src_node
                            /\ f.dst_node = edge.dst_node
                            /\ f.type = edge.type)
              => add_edge(G, edge) = G

\* a grant edge is stored, with incoming and outgoing lists that a second
\* insertion could lengthen, and an input differs from it in its role only
C2_Witness ==
    \E f \in edges : \E edge \in EdgeInputs :
        /\ f.src_node = edge.src_node
        /\ f.dst_node = edge.dst_node
        /\ f.type = edge.type
        /\ f.metadata # edge.metadata
        /\ Len(outgoing_edges[f.src_node]) >= 2

--------------------------------------------------------------------------
(* C3 *)

\* C3: get_node(kind, id) returns the node (kind, id) when a node with that
\* kind and id was inserted, by add_node or as an endpoint of add_edge, and
\* None when none was; a node with the same id and another kind does not
\* count.
C3_Lookup ==
    \A k \in KeyInputs :
        get_node(G, k[1], k[2]) =
            IF NodeOf(k[1], k[2]) \in inserted
            THEN NodeOf(k[1], k[2])
            ELSE None

\* the user "x" was inserted and is found, the folder "x" was not and is not
C3_Witness ==
    /\ get_node(G, "USER", "x") = NodeOf("USER", "x")
    /\ NodeOf("FOLDER", "x") \notin inserted
    /\ get_node(G, "FOLDER", "x") = None

--------------------------------------------------------------------------
(* C4 *)

\* C4: when the containment edges form a forest, get_resource_hierarchy(n)
\* returns exactly parent(n), parent(parent(n)), ..., root, nearest first,
\* without n, and the empty list when n is a root.
C4_AncestorChain ==
    IsForest =>
        \A n \in NodeInputs :
            get_resource_hierarchy(G, n, "PARENT_CHILD") =
                [raised |-> FALSE, value |-> ParentChain(n)]

\* a forest in which the folder "y" has a parent and a grandparent, while
\* another kind of edge enters a node of the chain
C4_Witness ==
    /\ IsForest
    /\ Len(ParentChain(NodeOf("FOLDER", "y"))) = 2
    /\ \E e \in edges : e.type # "PARENT_CHILD"
    /\ get_resource_hierarchy_by_id(G, "FOLDER", "y").value =
           ParentChain(NodeOf("FOLDER", "y"))

--------------------------------------------------------------------------
(* C5 *)

\* C5: get_resource_hierarchy(n) raises exactly when the upward walk from n
\* reaches a node with two or more incoming containment edges; the error
\* names that node and lists the ids of all its containment parents, and no
\* list is returned. A node with several parents off the walked chain does
\* not make the call fail.
C5_MultiParent ==
    \A n \in NodeInputs :
        LET r == get_resource_hierarchy(G, n, "PARENT_CHILD")
        IN  /\ r.raised <=> Offenders(n) # {}
            /\ r.raised =>
                 \E m \in Offenders(n) :
                    /\ r.value.node_type = NodeType[m.type]
                    /\ r.value.node_id = m.id
                    /\ Len(r.value.parent_ids) = Cardinality(Parents(m))
                    /\ Elems(r.value.parent_ids) = { p.id : p \in Parents(m) }

\* the walk from the user "x" climbs to a parent that has two parents and
\* raises there, while the walk from one of those parents returns
C5_Witness ==
    \E m \in NodeInputs \ {NodeOf("USER", "x")} :
        /\ Parents(NodeOf("USER", "x")) = {m}
        /\ Cardinality(Parents(m)) = 2
        /\ get_resource_hierarchy(G, NodeOf("USER", "x"), "PARENT_CHILD").raised
        /\ \E p \in Parents(m) :
              ~ get_resource_hierarchy(G, p, "PARENT_CHILD").raised

--------------------------------------------------------------------------
(* C6 *)

\* C6: when the containment edges form a forest, the set of nodes in the
\* list get_descendants(n) returns is exactly the set of nodes reachable
\* from n by one or more outgoing containment edges; it is empty when n has
\* no outgoing containment edge.
C6_Descendants ==
    IsForest =>
        \A n \in NodeInputs :
            \A d \in get_descendants(G, n, "PARENT_CHILD") :
                /\ Elems(d) = Reachable(n)
                /\ Children(n) = {} => d = <<>>

\* a forest in which a node has a child and a grandchild and an edge of
\* another kind leaves it
C6_Witness ==
    /\ IsForest
    /\ \E n \in NodeInputs :
          /\ Cardinality(Reachable(n)) = 2
          /\ Cardinality(Children(n)) = 1
          /\ \E e \in edges : e.src_node = n /\ e.type # "PARENT_CHILD"
          /\ \E d \in get_descendants(G, n, "PARENT_CHILD") : Len(d) = 2

--------------------------------------------------------------------------
(* C7 *)

\* the tuples the claim expects for the identity node i
ExpectedPermissions(i) ==
    UNION { { Reported(r, DictGet(e.metadata, "role", ""))
              : r \in {e.dst_node} \cup Reachable(e.dst_node) }
            : e \in { f \in edges :
                        f.type = "PERMISSION" /\ f.src_node = i } }

\* C7: for any graph and any (kind, id), the set of tuples
\* get_identity_permissions returns is exactly the set of (r'.id, r'.kind,
\* role) with a stored PERMISSION edge from the identity to r carrying role
\* and r' being r or a containment descendant of r; MEMBER edges add
\* nothing, and the result is the empty list when the identity was never
\* inserted.
C7_Permissions ==
    \A k \in KeyInputs :
        \A l \in get_identity_permissions(G, k[1], k[2]) :
            /\ Elems(l) = ExpectedPermissions(NodeOf(k[1], k[2]))
            /\ NodeOf(k[1], k[2]) \notin inserted => l = <<>>

\* the user "x" holds a grant on a resource that has a descendant, and a
\* MEMBER edge to another node
C7_Witness ==
    LET i == NodeOf("USER", "x")
    IN  \E e \in edges : \E f \in edges :
            /\ e.type = "PERMISSION" /\ e.src_node = i
            /\ Reachable(e.dst_node) \ {e.dst_node} # {}
            /\ f.type = "MEMBER" /\ f.src_node = i
            /\ f.dst_node \notin {e.dst_node} \cup Reachable(e.dst_node)
            /\ \E l \in get_identity_permissions(G, "USER", "x") :
                  Len(l) = 2

--------------------------------------------------------------------------
(* C8 *)

\* the stored PERMISSION edges
Grants == { e \in edges : e.type = "PERMISSION" }

\* the role get_identity_permissions reads off an edge
RoleOf(e) == DictGet(e.metadata, "role", "")

\* the nodes a grant on r covers: r and its containment descendants
Covered(r) == {r} \cup Reachable(r)

\* a later add_edge from e's identity to e's resource is a silent no-op and
\* e is the one PERMISSION edge between the two
C8_FirstRoleKept(e) ==
    /\ \A edge \in EdgeInputs :
          ( /\ edge.src_node = e.src_node
            /\ edge.dst_node = e.dst_node
            /\ edge.type = "PERMISSION" ) => add_edge(G, edge) = G
    /\ { f \in Grants : f.src_node = e.src_node /\ f.dst_node = e.dst_node }
          = {e}

\* C8 as claimed: once a PERMISSION edge i -> r with role R1 is stored, a
\* later add_edge i -> r with another role is a silent no-op, the graph
\* holds exactly that one PERMISSION edge i -> r, and
\* get_identity_permissions for i reports r and its descendants with R1 and
\* with no other role. (The no-op leaves the state as it is, so every state
\* holding the edge is also a state after such a call, for any other role.)
C8_Original ==
    \A e \in { f \in Grants : RoleOf(f) \in Roles } :
        /\ C8_FirstRoleKept(e)
        /\ \A l \in get_identity_permissions(G, e.src_node.type,
                                             e.src_node.id) :
              \A r \in Covered(e.dst_node) :
                 /\ Reported(r, RoleOf(e)) \in Elems(l)
                 /\ \A role \in Roles \ {RoleOf(e)} :
                       Reported(r, role) \notin Elems(l)

\* C8 amended: once a PERMISSION edge i -> r with role R1 is stored, a later
\* add_edge i -> r with another role is a silent no-op, the graph holds
\* exactly that one PERMISSION edge i -> r, and get_identity_permissions
\* for i reports r and its descendants with R1; it reports one of them with
\* another role only when i holds a PERMISSION edge with that role to
\* another resource that covers the node.
C8_Amended ==
    \A e \in Grants :
        /\ C8_FirstRoleKept(e)
        /\ \A l \in get_identity_permissions(G, e.src_node.type,
                                             e.src_node.id) :
              \A r \in Covered(e.dst_node) :
                 /\ Reported(r, RoleOf(e)) \in Elems(l)
                 /\ \A role \in (Roles \cup {""}) \ {RoleOf(e)} :
                       Reported(r, role) \in Elems(l) =>
                          \E f \in Grants :
                             /\ f.src_node = e.src_node
                             /\ f.dst_node # e.dst_node
                             /\ RoleOf(f) = role
                             /\ r \in Covered(f.dst_node)

\* the user "x" holds a grant with a role on a resource with a descendant
\* and no other grant, so the descendant is reported with that role only
C8_Witness ==
    \E e \in Grants :
        /\ e.src_node = NodeOf("USER", "x")
        /\ RoleOf(e) \in Roles
        /\ Grants = {e}
        /\ Reachable(e.dst_node) \ {e.dst_node} # {}
        /\ \E l \in get_identity_permissions(G, "USER", "x") :
              Elems(l) = { Reported(r, RoleOf(e)) : r \in Covered(e.dst_node) }

--------------------------------------------------------------------------
(* C9 *)

\* while a call is in progress on a graph whose nodes have at most one
\* containment parent each: nothing is raised, every run of the loop body
\* was for a node not seen before, and the list is no longer than the node
\* set
C9_Bounded ==
    (walk.pc # "idle" /\ SingleParent) =>
        /\ walk.pc # "raised"
        /\ walk.iters = Cardinality(walk.visited)
        /\ walk.iters <= Cardinality(nodes \cup {walk.node})
        /\ Len(walk.ancestors) <= Cardinality(nodes)

\* C9: on every finite graph in which each node has at most one incoming
\* containment edge, cycles and self-loops included,
\* get_resource_hierarchy(n) terminates and returns a list without raising;
\* the loop body runs at most once per node and the list has at most as
\* many entries as there are nodes.
C9_Terminates ==
    /\ []C9_Bounded
    /\ (walk.pc = "loop" /\ SingleParent) ~> (walk.pc = "returned")

\* a call on a node of a containment cycle through every node has returned
\* with as many entries as there are nodes
C9_Witness ==
    /\ walk.pc = "returned"
    /\ SingleParent
    /\ walk.node \in Reachable(walk.node)
    /\ Cardinality(nodes) >= 2
    /\ Len(walk.ancestors) = Cardinality(nodes)

--------------------------------------------------------------------------
(* C10 *)

\* C10: for every containment graph, several parents and cycles included,
\* and every order in which get_neighbors yields a node's children, the
\* list get_descendants(n) returns holds each node at most once.
C10_NoDuplicates ==
    \A n \in NodeInputs :
        \A d \in get_descendants(G, n, "PARENT_CHILD") : NoDuplicates(d)

====
